---- MODULE Spec2Model ----
(***************************************************************************)
(* Model of the incremental OAI-PMH harvesting engine of metha             *)
(* (src/harvest.go): the interval planner (defaultInterval), the           *)
(* pagination driver (runInterval), the batch materializer (finalize),     *)
(* the deferred temp-file cleanup of run and the interrupt handler         *)
(* goroutine installed by setupInterruptHandler.                           *)
(*                                                                         *)
(* Time.  A time.Time value is a record [day, sec]: day is the calendar    *)
(* day counted from 1, sec the position inside the day (Midnight, Midday,  *)
(* LastSecond).  A calendar month has DaysPerMonth days.  A formatted      *)
(* date is a tuple: <<d>> for layout 2006-01-02, <<d, s>> for layout       *)
(* 2006-01-02T15:04:05Z and <<>> for the empty layout.                     *)
(*                                                                         *)
(* Files.  A promoted file DATE-IDX.xml.gz is [date, idx]; a temporary     *)
(* file DATE-IDX.xml-tmp-R is [date, idx, suffix].                         *)
(***************************************************************************)
EXTENDS Integers, Sequences, FiniteSets, TLC

(***************************************************************************)
(* Bounds of the model.                                                    *)
(***************************************************************************)
\* number of consecutive processes (Run calls) on the same cache directory
MaxRuns == 2
\* largest request limit the caller may configure
MaxReq == 3
\* largest request limit of the harvests that are run more than once
RerunMaxReq == 1
\* days of one calendar month of the model's calendar
DaysPerMonth == 2

\* positions inside a day
Midnight == 0
Midday == 1
LastSecond == 2

\* days on which Run may be started (time.Now() at line 123)
RunDays == {3}
\* days the caller's From or the endpoint's earliest datestamp may name
StartDays == {1, 2, 3}
\* values of the caller's switches
MaxRequestsValues == {0, 1, MaxReq}
MaxEmptyResponsesValues == {0, 2}
\* random suffixes rand.Intn may return for a batch (math/rand is not seeded
\* by this code: batches of different processes may share a suffix)
Suffixes == {1}
\* resumption tokens the server hands out
Tokens == {"a"}

NoToken == ""
NoErr == <<>>

(***************************************************************************)
(* Dates and formatting.                                                   *)
(***************************************************************************)
DayLayout == "2006-01-02"
SecLayout == "2006-01-02T15:04:05Z"

\* t.Format(layout)
Format(t, layout) ==
  IF layout = DayLayout THEN <<t.day>>
  ELSE IF layout = SecLayout THEN <<t.day, t.sec>>
  ELSE <<>>

\* time.Parse(layout, s) succeeds
Parses(layout, s) ==
  IF layout = DayLayout THEN Len(s) = 1
  ELSE IF layout = SecLayout THEN Len(s) = 2
  ELSE FALSE

\* the value of time.Parse(layout, s) when it succeeds
Parse(layout, s) ==
  IF layout = DayLayout THEN [day |-> s[1], sec |-> Midnight]
  ELSE [day |-> s[1], sec |-> s[2]]

\* t.AddDate(0, 0, n)
AddDate(t, n) == [t EXCEPT !.day = @ + n]

\* now.New(t).EndOfDay()
EndOfDay(t) == [t EXCEPT !.sec = LastSecond]

\* t1.After(t2)
After(t1, t2) == t1.day > t2.day \/ (t1.day = t2.day /\ t1.sec > t2.sec)

\* last day of the calendar month of day d
MonthEnd(d) == (((d - 1) \div DaysPerMonth) + 1) * DaysPerMonth

\* DateLayout
DateLayout(h) ==
  IF h.Identify.Granularity = "YYYY-MM-DD" THEN DayLayout
  ELSE IF h.Identify.Granularity = "YYYY-MM-DDThh:mm:ssZ" THEN SecLayout
  ELSE ""

\* earliestDate: [ok, t]
earliestDate(h) ==
  LET s == h.Identify.EarliestDatestamp
      bad == [ok |-> FALSE, t |-> [day |-> 0, sec |-> Midnight]]
      parse(layout, str) ==
        IF Parses(layout, str) THEN [ok |-> TRUE, t |-> Parse(layout, str)] ELSE bad
  IN  IF h.Identify.Granularity = "YYYY-MM-DD"
        THEN IF Len(s) <= 1 THEN parse(DayLayout, s)
             ELSE parse(DayLayout, SubSeq(s, 1, 1))
      ELSE IF h.Identify.Granularity = "YYYY-MM-DDThh:mm:ssZ"
        THEN IF Len(s) >= 1 /\ Len(s) < 2 THEN parse(DayLayout, SubSeq(s, 1, 1))
             ELSE parse(SecLayout, s)
      ELSE bad

(***************************************************************************)
(* Files of the cache directory.                                           *)
(***************************************************************************)
\* file name order of two temporary files (date, then zero padded index,
\* then suffix), the order filepath.Glob returns names in
NameBefore(a, b) ==
  \/ a.date[1] < b.date[1]
  \/ a.date = b.date /\ a.idx < b.idx
  \/ a.date = b.date /\ a.idx = b.idx /\ a.suffix < b.suffix

\* MustGlob: the names of set S in file name order
RECURSIVE MustGlob(_)
MustGlob(S) ==
  IF S = {} THEN <<>>
  ELSE LET first == CHOOSE a \in S : \A b \in S \ {a} : NameBefore(a, b)
       IN  <<first>> \o MustGlob(S \ {first})

\* temporaryFiles
temporaryFiles(tmp) == MustGlob(tmp)

\* temporaryFilesSuffix
temporaryFilesSuffix(tmp, sfx) == MustGlob({f \in tmp : f.suffix = sfx})

\* the destination name finalize derives from a temporary file name
Dst(f) == [date |-> f.date, idx |-> f.idx]

\* the elements of a sequence
Range(q) == {q[n] : n \in 1..Len(q)}

\* a sweep that returns after the first file of the listing
cleanupTemporaryFilesFirstOnly(tmp, failAt) ==
  IF tmp = {} THEN {}
  ELSE tmp \ {MustGlob(tmp)[1]}

\* cleanupTemporaryFiles when os.Remove fails (not ENOENT) at the failAt-th
\* file of the listing; failAt = 0 when no removal fails.  The files left.
cleanupTemporaryFiles(tmp, failAt) ==
  IF failAt = 0 THEN {}
  ELSE LET names == temporaryFiles(tmp)
       IN  {names[n] : n \in failAt..Len(names)}

\* DirLaster.Last with the ExtractorFunc of defaultInterval: the largest date
\* of a file matching fnPattern, the default value without such a file
Last(promoted, defaultValue) ==
  IF promoted = {} THEN defaultValue
  ELSE LET f == CHOOSE x \in promoted : \A y \in promoted : y.date[1] <= x.date[1]
       IN  f.date

(***************************************************************************)
(* Interval planner and splitter.                                          *)
(***************************************************************************)
ZeroTime == [day |-> 0, sec |-> Midnight]
\* Interval{}
ZeroInterval == [Begin |-> ZeroTime, End |-> ZeroTime]

\* a planner whose window ends with the day Run starts
defaultIntervalUntilToday(h, started, promoted) ==
  LET earliest == IF h.From = <<>> THEN earliestDate(h)
                  ELSE IF Parses(DayLayout, h.From)
                    THEN [ok |-> TRUE, t |-> Parse(DayLayout, h.From)]
                    ELSE [ok |-> FALSE, t |-> ZeroTime]
      defaultValue == Format(earliest.t, DayLayout)
      last == Last(promoted, defaultValue)
      parsed == Parse(DayLayout, last)
      begin == IF last # defaultValue THEN AddDate(parsed, 1) ELSE parsed
      end == EndOfDay(started)
  IN  IF ~earliest.ok
        THEN [err |-> <<"ErrInvalidEarliestDate">>, iv |-> ZeroInterval,
              last |-> <<>>, defaultValue |-> <<>>]
      ELSE IF last = Format(end, DayLayout)
        THEN [err |-> <<"ErrAlreadySynced">>, iv |-> ZeroInterval,
              last |-> last, defaultValue |-> defaultValue]
      ELSE [err |-> NoErr, iv |-> [Begin |-> begin, End |-> end],
            last |-> last, defaultValue |-> defaultValue]

\* a planner that takes the cache for synced when its last date is the day
\* Run starts
defaultIntervalSyncedOnStarted(h, started, promoted) ==
  LET earliest == IF h.From = <<>> THEN earliestDate(h)
                  ELSE IF Parses(DayLayout, h.From)
                    THEN [ok |-> TRUE, t |-> Parse(DayLayout, h.From)]
                    ELSE [ok |-> FALSE, t |-> ZeroTime]
      defaultValue == Format(earliest.t, DayLayout)
      last == Last(promoted, defaultValue)
      parsed == Parse(DayLayout, last)
      begin == IF last # defaultValue THEN AddDate(parsed, 1) ELSE parsed
      end == EndOfDay(AddDate(started, -1))
  IN  IF ~earliest.ok
        THEN [err |-> <<"ErrInvalidEarliestDate">>, iv |-> ZeroInterval,
              last |-> <<>>, defaultValue |-> <<>>]
      ELSE IF last = Format(started, DayLayout)
        THEN [err |-> <<"ErrAlreadySynced">>, iv |-> ZeroInterval,
              last |-> last, defaultValue |-> defaultValue]
      ELSE [err |-> NoErr, iv |-> [Begin |-> begin, End |-> end],
            last |-> last, defaultValue |-> defaultValue]

\* defaultInterval: [err, iv, last, defaultValue]
defaultInterval(h, started, promoted) ==
  LET fail(e) == [err |-> <<e>>, iv |-> ZeroInterval, last |-> <<>>, defaultValue |-> <<>>]
      earliest == IF h.From = <<>> THEN earliestDate(h)
                  ELSE IF Parses(DayLayout, h.From)
                    THEN [ok |-> TRUE, t |-> Parse(DayLayout, h.From)]
                    ELSE [ok |-> FALSE, t |-> ZeroTime]
  IN  IF ~earliest.ok
        THEN fail(IF h.From = <<>> THEN "ErrInvalidEarliestDate" ELSE "ParseError")
      ELSE
        LET defaultValue == Format(earliest.t, DayLayout)
            last == Last(promoted, defaultValue)
            parsed == Parse(DayLayout, last)
            begin == IF last # defaultValue THEN AddDate(parsed, 1) ELSE parsed
            end == EndOfDay(AddDate(started, -1))
        IN  IF last = Format(end, DayLayout)
              THEN [err |-> <<"ErrAlreadySynced">>, iv |-> ZeroInterval,
                    last |-> last, defaultValue |-> defaultValue]
              ELSE [err |-> NoErr, iv |-> [Begin |-> begin, End |-> end],
                    last |-> last, defaultValue |-> defaultValue]

\* Interval.DailyIntervals: one sub-interval per day of the window
RECURSIVE DailyIntervals(_)
DailyIntervals(iv) ==
  IF After(iv.Begin, iv.End) THEN <<>>
  ELSE LET end == EndOfDay(iv.Begin)
           stop == IF After(end, iv.End) THEN iv.End ELSE end
           next == [day |-> iv.Begin.day + 1, sec |-> Midnight]
       IN  <<[Begin |-> iv.Begin, End |-> stop]>>
             \o DailyIntervals([Begin |-> next, End |-> iv.End])

\* Interval.MonthlyIntervals: one sub-interval per calendar month, clipped to
\* the window at both ends
RECURSIVE MonthlyIntervals(_)
MonthlyIntervals(iv) ==
  IF After(iv.Begin, iv.End) THEN <<>>
  ELSE LET end == [day |-> MonthEnd(iv.Begin.day), sec |-> LastSecond]
           stop == IF After(end, iv.End) THEN iv.End ELSE end
           next == [day |-> MonthEnd(iv.Begin.day) + 1, sec |-> Midnight]
       IN  <<[Begin |-> iv.Begin, End |-> stop]>>
             \o MonthlyIntervals([Begin |-> next, End |-> iv.End])

(***************************************************************************)
(* State.                                                                  *)
(***************************************************************************)
VARIABLES
  h,         \* the Harvest value: the caller's switches and the Identify record
  Started,   \* h.Started
  run,       \* number of Run calls so far (one process each)
  pc,        \* position of the main goroutine
  hpc,       \* position of the interrupt handler goroutine
  proc,      \* the process: "none", "alive", "exit0" (os.Exit(0)), "exit1" (log.Fatal)
  mutex,     \* h.Mutex: "free", "main" or "handler"
  files,     \* promoted files of the cache directory
  temps,     \* temporary files of the cache directory
  ivs,       \* the sub-intervals run iterates over
  k,         \* index in ivs of the sub-interval runInterval works on
  suffix,    \* runInterval: suffix of the batch
  token,     \* runInterval: current resumption token
  i,         \* runInterval: number of responses
  empty,     \* runInterval: number of successive empty responses
  todo,      \* finalize: temporary files still to move
  renamed,   \* finalize: files moved so far
  err,       \* the error run returns (NoErr for nil)
  plan,      \* history: what defaultInterval returned in this run
  pre,       \* history: the promoted files when the current batch started
  finFailed, \* history: finalize returned an error in this run
  rmFailed,  \* history: an os.Remove of this run failed
  nreq,      \* history: ListRecords requests issued in this run
  lastReq,   \* history: the ListRecords request issued last
  hollow,    \* history: a sub-interval of this run ended with no page written
  prev,      \* history: whether the previous Run returned nil, its h.Started and
             \* the promoted files it left
  seen       \* history of the current runInterval call: why its loop ended
             \* (stop), whether the last response was an InternalException
             \* (retry), the token of the response written last (wtoken), the
             \* requests issued (nreq), the temporary files written (written)

vars == <<h, Started, run, pc, hpc, proc, mutex, files, temps, ivs, k, suffix,
          token, i, empty, todo, renamed, err, plan, pre, finFailed, rmFailed,
          nreq, lastReq, hollow, prev, seen>>

\* the locals of runInterval and finalize
locals == <<suffix, token, i, empty, todo, renamed>>

NoPlan == [err |-> <<"none">>, iv |-> ZeroInterval, last |-> <<>>, defaultValue |-> <<>>]
NoReq == [ResumptionToken |-> NoToken, From |-> <<>>, Until |-> <<>>, n |-> 0]
NoPrev == [ok |-> FALSE, started |-> ZeroTime, files |-> {}]
NoSeen == [stop |-> "", retry |-> FALSE, wtoken |-> NoToken, nreq |-> 0, written |-> {}]

\* the Identify records of the endpoints harvested: a day granularity with
\* each earliest datestamp, a second granularity, an unsupported granularity
IdentifyValues ==
  {[Granularity |-> "YYYY-MM-DD", EarliestDatestamp |-> <<d>>] : d \in StartDays}
    \cup {[Granularity |-> "YYYY-MM-DDThh:mm:ssZ", EarliestDatestamp |-> <<1, Midday>>],
          [Granularity |-> "", EarliestDatestamp |-> <<1>>]}

\* the From values of the caller: none, a date, a value time.Parse rejects
FromValues == {<<>>} \cup {<<d>> : d \in StartDays} \cup {<<1, Midday>>}

\* the Harvest values Run is called on
Harvests ==
  {c \in [MaxRequests : MaxRequestsValues,
          DisableSelectiveHarvesting : BOOLEAN,
          IgnoreHTTPErrors : BOOLEAN,
          MaxEmptyResponses : MaxEmptyResponsesValues,
          DailyInterval : BOOLEAN,
          From : FromValues,
          Identify : IdentifyValues] :
     \* the planner's inputs are not read when selective harvesting is off,
     \* the earliest datestamp is not read when From is given
     /\ c.DisableSelectiveHarvesting =>
          c.From = <<>> /\ ~c.DailyInterval /\ c.Identify.EarliestDatestamp = <<1>>
                        /\ c.Identify.Granularity = "YYYY-MM-DD"
     /\ c.From # <<>> => c.Identify.EarliestDatestamp = <<1>>
     \* daily splitting is run on the endpoints of day granularity that are
     \* harvested from their earliest datestamp
     /\ c.DailyInterval => c.From = <<>> /\ c.Identify.Granularity = "YYYY-MM-DD"}

\* the default start the planner is given: From, else the earliest datestamp
DefaultStart == IF h.From # <<>> THEN h.From ELSE h.Identify.EarliestDatestamp

Init ==
  /\ h \in Harvests
  /\ Started = ZeroTime
  /\ run = 0
  /\ pc = "idle"
  /\ hpc = "none"
  /\ proc = "none"
  /\ mutex = "free"
  /\ files = {}
  /\ temps = {}
  /\ ivs = <<>>
  /\ k = 0
  /\ suffix = 0
  /\ token = NoToken
  /\ i = 0
  /\ empty = 0
  /\ todo = <<>>
  /\ renamed = <<>>
  /\ err = NoErr
  /\ plan = NoPlan
  /\ pre = {}
  /\ finFailed = FALSE
  /\ rmFailed = FALSE
  /\ nreq = 0
  /\ lastReq = NoReq
  /\ hollow = FALSE
  /\ prev = NoPrev
  /\ seen = NoSeen

(***************************************************************************)
(* Run and run.                                                            *)
(***************************************************************************)
\* Run (lines 118-125) in a new process started on day d: installs the
\* interrupt handler and captures h.Started
StartProcess(d) ==
  /\ Started' = [day |-> d, sec |-> Midday]
  /\ run' = run + 1
  /\ prev' = [ok |-> (pc = "returned" /\ err = NoErr), started |-> Started,
               files |-> files]
  /\ pc' = "run"
  /\ hpc' = "waiting"
  /\ proc' = "alive"
  /\ mutex' = "free"
  /\ ivs' = <<>> /\ k' = 0
  /\ suffix' = 0 /\ token' = NoToken /\ i' = 0 /\ empty' = 0
  /\ todo' = <<>> /\ renamed' = <<>>
  /\ err' = NoErr
  /\ plan' = NoPlan
  /\ pre' = files
  /\ finFailed' = FALSE /\ rmFailed' = FALSE
  /\ nreq' = 0 /\ lastReq' = NoReq /\ hollow' = FALSE
  /\ seen' = NoSeen
  /\ UNCHANGED <<h, files, temps>>

\* the first Run on a fresh cache directory
Run ==
  /\ run = 0 /\ pc = "idle"
  /\ \E d \in RunDays : StartProcess(d)

\* a later Run on the cache directory the previous process left, the same day
\* or the day after
Rerun ==
  /\ run > 0 /\ run < MaxRuns
  /\ pc = "returned" \/ proc \in {"exit0", "exit1"}
  /\ \E d \in {Started.day, Started.day + 1} : StartProcess(d)

\* loops of run that go on with the next sub-interval whatever runInterval
\* returned
runNextIgnoringError(e, kk, n) ==
  IF kk < n THEN [pc |-> "interval", k |-> kk + 1]
  ELSE [pc |-> "cleanup", k |-> kk]

\* loops of run that end after the first sub-interval whatever runInterval
\* returned
runNextStopAlways(e, kk, n) == [pc |-> "cleanup", k |-> kk]

\* the loops of run, lines 280-293, after runInterval returned e for
\* sub-interval kk of n: where run goes on and with which sub-interval
runNext(e, kk, n) ==
  IF e # NoErr THEN [pc |-> "cleanup", k |-> kk]
  ELSE IF kk < n THEN [pc |-> "interval", k |-> kk + 1]
  ELSE [pc |-> "cleanup", k |-> kk]

\* run, lines 271-279: the sub-intervals to harvest
Plan ==
  /\ proc = "alive" /\ pc = "run"
  /\ IF h.DisableSelectiveHarvesting
       THEN /\ ivs' = <<ZeroInterval>>
            /\ k' = 1
            /\ pc' = "interval"
            /\ UNCHANGED <<err, plan>>
       ELSE LET r == defaultInterval(h, Started, files)
                sub == IF h.DailyInterval THEN DailyIntervals(r.iv)
                       ELSE MonthlyIntervals(r.iv)
            IN  /\ plan' = r
                /\ IF r.err # NoErr
                     THEN /\ err' = r.err
                          /\ pc' = "cleanup"
                          /\ UNCHANGED <<ivs, k>>
                     ELSE /\ ivs' = sub
                          /\ k' = 1
                          /\ pc' = IF sub = <<>> THEN "cleanup" ELSE "interval"
                          /\ UNCHANGED err
  /\ UNCHANGED <<h, Started, run, hpc, proc, mutex, files, temps, locals, pre,
                 finFailed, rmFailed, nreq, lastReq, hollow, prev, seen>>

(***************************************************************************)
(* Pagination driver: runInterval.                                         *)
(***************************************************************************)
\* what Do(&req) may return: a transport error (fail), or a response with an
\* OAI error code, a resumption token and a number of records
Responses ==
  {[fail |-> TRUE, code |-> "", token |-> NoToken, nrec |-> 0]}
    \cup {[fail |-> FALSE, code |-> c, token |-> NoToken, nrec |-> 0] :
            c \in {"InternalException", "badArgument"}}
    \cup {[fail |-> FALSE, code |-> "noRecordsMatch", token |-> t, nrec |-> 0] :
            t \in Tokens \cup {NoToken}}
    \cup {[fail |-> FALSE, code |-> "", token |-> t, nrec |-> n] :
            t \in Tokens \cup {NoToken}, n \in {0, 1}}

\* resp.HasResumptionToken / resp.GetResumptionToken
HasResumptionToken(resp) == resp.token # NoToken

\* runInterval, lines 298-303: a fresh suffix and fresh counters
BeginInterval ==
  /\ proc = "alive" /\ pc = "interval"
  /\ suffix' \in Suffixes
  /\ token' = NoToken
  /\ i' = 0
  /\ empty' = 0
  /\ pre' = files
  /\ seen' = NoSeen
  /\ pc' = "loop"
  /\ UNCHANGED <<h, Started, run, hpc, proc, mutex, files, temps, ivs, k, todo,
                 renamed, err, plan, finFailed, rmFailed, nreq, lastReq, hollow, prev>>

\* at the head of the loop: no page of this sub-interval has been written
\* (a written page keeps the loop going only with its token, line 383)
NothingWritten == token = NoToken

\* a request limit that never ends the loop
maxRequestsReachedNever(hh, n) == FALSE

\* the condition of line 308
maxRequestsReached(hh, n) == hh.MaxRequests = n

\* runInterval, lines 307-311: the request limit ends the loop
LimitReached ==
  /\ proc = "alive" /\ pc = "loop"
  /\ maxRequestsReached(h, i)
  /\ pc' = "finalize"
  /\ hollow' = (hollow \/ NothingWritten)
  /\ seen' = [seen EXCEPT !.stop = "limit"]
  /\ UNCHANGED <<h, Started, run, hpc, proc, mutex, files, temps, ivs, k, locals,
                 err, plan, pre, finFailed, rmFailed, nreq, lastReq, prev>>

\* the date runInterval stamps on the files of sub-interval iv (lines 323-332)
filedate(iv) ==
  IF h.DisableSelectiveHarvesting THEN Format(Started, DayLayout)
  ELSE Format(iv.End, DayLayout)

\* a request that never carries a resumption token
RequestWithoutToken(iv) ==
  [ResumptionToken |-> NoToken,
   From |-> IF h.DisableSelectiveHarvesting THEN <<>> ELSE Format(iv.Begin, DateLayout(h)),
   Until |-> IF h.DisableSelectiveHarvesting THEN <<>> ELSE Format(iv.End, DateLayout(h)),
   n |-> i]

\* the request of one iteration (lines 313-332)
Request(iv) ==
  [ResumptionToken |-> token,
   From |-> IF h.DisableSelectiveHarvesting THEN <<>> ELSE Format(iv.Begin, DateLayout(h)),
   Until |-> IF h.DisableSelectiveHarvesting THEN <<>> ELSE Format(iv.End, DateLayout(h)),
   n |-> i]

\* runInterval returns e to run (lines 341, 363, 375, 403), which goes on as
\* runNext says
Return(e) ==
  /\ err' = e
  /\ pc' = runNext(e, k, Len(ivs)).pc
  /\ k' = runNext(e, k, Len(ivs)).k

\* runInterval, one iteration of the loop from the request (line 313) on:
\* resp is what the server answers, wok whether xml.Marshal and
\* ioutil.WriteFile succeed
Page(resp, wok) ==
  /\ proc = "alive" /\ pc = "loop"
  /\ ~maxRequestsReached(h, i)
  /\ nreq' = nreq + 1
  /\ lastReq' = Request(ivs[k])
  /\ IF resp.fail
       THEN \* lines 336-342
            /\ IF h.IgnoreHTTPErrors
                 THEN /\ pc' = "finalize"
                      /\ hollow' = (hollow \/ NothingWritten)
                      /\ seen' = [seen EXCEPT !.nreq = @ + 1, !.retry = FALSE,
                                              !.stop = "transport"]
                      /\ UNCHANGED <<err, k>>
                 ELSE /\ Return(<<"transport">>)
                      /\ seen' = [seen EXCEPT !.nreq = @ + 1, !.retry = FALSE,
                                              !.stop = "fatal"]
                      /\ UNCHANGED hollow
            /\ UNCHANGED <<temps, token, i, empty>>
     ELSE IF resp.code = "InternalException"
       THEN \* lines 355-361
            /\ i' = i + 1
            /\ pc' = "loop"
            /\ seen' = [seen EXCEPT !.nreq = @ + 1, !.retry = TRUE]
            /\ UNCHANGED <<temps, token, empty, err, k, hollow>>
     ELSE IF resp.code \notin {"", "noRecordsMatch"}
       THEN \* lines 362-363
            /\ Return(<<resp.code>>)
            /\ seen' = [seen EXCEPT !.nreq = @ + 1, !.retry = FALSE, !.stop = "fatal"]
            /\ UNCHANGED <<temps, token, i, empty, hollow>>
     ELSE IF ~wok
       THEN \* lines 374-376
            /\ Return(<<"write">>)
            /\ seen' = [seen EXCEPT !.nreq = @ + 1, !.retry = FALSE, !.stop = "fatal"]
            /\ UNCHANGED <<temps, token, i, empty, hollow>>
     ELSE \* lines 370-399; the break of line 351 leaves the switch only
          LET file == [date |-> filedate(ivs[k]), idx |-> i, suffix |-> suffix]
              e == IF resp.nrec > 0 THEN 0 ELSE empty + 1
              stop == IF resp.token = NoToken
                        THEN IF resp.code = "noRecordsMatch" THEN "noRecordsMatch"
                             ELSE "notoken"
                      ELSE IF e = h.MaxEmptyResponses THEN "empty"
                      ELSE ""
          IN  /\ temps' = temps \cup {file}
              /\ token' = resp.token
              /\ seen' = [seen EXCEPT !.nreq = @ + 1, !.retry = FALSE,
                                      !.wtoken = resp.token,
                                      !.written = @ \cup {file}, !.stop = stop]
              /\ UNCHANGED <<err, k, hollow>>
              /\ IF resp.token = NoToken
                   THEN pc' = "finalize" /\ UNCHANGED <<i, empty>>
                   ELSE /\ i' = i + 1
                        /\ empty' = e
                        /\ pc' = IF e = h.MaxEmptyResponses THEN "finalize" ELSE "loop"
  /\ UNCHANGED <<h, Started, run, hpc, proc, mutex, files, ivs, suffix, todo,
                 renamed, plan, pre, finFailed, rmFailed, prev>>

(***************************************************************************)
(* Batch materializer: finalize.                                           *)
(***************************************************************************)
\* what MoveAndCompress may return: nil, an *os.PathError carrying ENOENT, or
\* another error
MoveResults == {"ok", "ENOENT", "error"}

\* a finalize that lists the batch without taking the mutex
FinalizeWithoutLock ==
  /\ proc = "alive" /\ pc = "finalize"
  /\ todo' = temporaryFilesSuffix(temps, suffix)
  /\ renamed' = <<>>
  /\ pc' = "promote"
  /\ UNCHANGED <<h, Started, run, hpc, proc, mutex, files, temps, ivs, k, suffix,
                 token, i, empty, err, plan, pre, finFailed, rmFailed, nreq,
                 lastReq, hollow, prev, seen>>

\* finalize, lines 177-181: takes the mutex and lists the batch
FinalizeLock ==
  /\ proc = "alive" /\ pc = "finalize"
  /\ mutex = "free"
  /\ mutex' = "main"
  /\ todo' = temporaryFilesSuffix(temps, suffix)
  /\ renamed' = <<>>
  /\ pc' = "promote"
  /\ UNCHANGED <<h, Started, run, hpc, proc, files, temps, ivs, k, suffix, token,
                 i, empty, err, plan, pre, finFailed, rmFailed, nreq, lastReq,
                 hollow, prev, seen>>

\* the rollback loop of finalize, lines 185-195, after MoveAndCompress failed
\* with moveErr; rmFail are the files os.Remove fails on.  The condition of
\* line 186 tests err, the error of the move, which is never nil here.
\* [tried: the files os.Remove was called on, err: the error returned]
rollback(done, moveErr, rmFail) ==
  IF moveErr = "ENOENT"
    THEN [tried |-> Range(done), err |-> <<"move">>]
  ELSE IF done = <<>>
    THEN [tried |-> {}, err |-> <<"move">>]
  ELSE [tried |-> {done[1]},
        err |-> <<"move", IF done[1] \in rmFail THEN "remove" ELSE "nil",
                  "inconsistent cache state">>]

\* finalize, one iteration of the loop of lines 181-198: moves the next file
\* into place or, when that fails, rolls back and returns the error to run
Promote(res, rmFail) ==
  /\ proc = "alive" /\ pc = "promote"
  /\ todo # <<>>
  /\ rmFail \subseteq Range(renamed)
  /\ IF res = "ok"
       THEN /\ rmFail = {}
            /\ files' = files \cup {Dst(Head(todo))}
            /\ temps' = temps \ {Head(todo)}
            /\ renamed' = Append(renamed, Dst(Head(todo)))
            /\ todo' = Tail(todo)
            /\ UNCHANGED <<pc, k, mutex, err, finFailed, rmFailed>>
       ELSE LET r == rollback(renamed, res, rmFail)
            IN  /\ rmFail \subseteq r.tried
                /\ files' = files \ (r.tried \ rmFail)
                /\ rmFailed' = (rmFailed \/ rmFail # {})
                /\ finFailed' = TRUE
                /\ mutex' = "free"
                /\ Return(r.err)
                /\ UNCHANGED <<temps, renamed, todo>>
  /\ UNCHANGED <<h, Started, run, hpc, proc, ivs, suffix, token, i, empty,
                 plan, pre, nreq, lastReq, hollow, prev, seen>>

\* a finalize that returns nil without releasing the mutex
FinalizeDoneKeepingLock ==
  /\ proc = "alive" /\ pc = "promote"
  /\ todo = <<>>
  /\ Return(NoErr)
  /\ UNCHANGED <<h, Started, run, hpc, proc, mutex, files, temps, ivs, locals,
                 plan, pre, finFailed, rmFailed, nreq, lastReq, hollow, prev, seen>>

\* finalize returns nil (lines 199-202), runInterval returns nil and run goes
\* on with the next sub-interval or returns (lines 280-293)
FinalizeDone ==
  /\ proc = "alive" /\ pc = "promote"
  /\ todo = <<>>
  /\ mutex' = "free"
  /\ Return(NoErr)
  /\ UNCHANGED <<h, Started, run, hpc, proc, files, temps, ivs, locals, plan,
                 pre, finFailed, rmFailed, nreq, lastReq, hollow, prev, seen>>

(***************************************************************************)
(* The deferred cleanup of run.                                            *)
(***************************************************************************)
\* the error run returns, lines 260-269: e is what cleanupTemporaryFiles
\* returned; line 267 assigns e also after line 265 built the MultiError
deferred(primary, e) == IF e # NoErr THEN e ELSE primary

\* run returns: the deferred function sweeps the temporary files; failAt is
\* the position of the file os.Remove fails on, 0 for none
Cleanup(failAt) ==
  /\ proc = "alive" /\ pc = "cleanup"
  /\ failAt \in 0..Cardinality(temps)
  /\ temps' = cleanupTemporaryFiles(temps, failAt)
  /\ rmFailed' = (rmFailed \/ failAt # 0)
  /\ err' = deferred(err, IF failAt # 0 THEN <<"remove">> ELSE NoErr)
  /\ pc' = "returned"
  /\ UNCHANGED <<h, Started, run, hpc, proc, mutex, files, ivs, k, locals, plan,
                 pre, finFailed, nreq, lastReq, hollow, prev, seen>>

(***************************************************************************)
(* The interrupt handler goroutine of setupInterruptHandler.               *)
(***************************************************************************)
\* line 156: SIGINT is delivered while Run is executing
Signal ==
  /\ proc = "alive" /\ hpc = "waiting"
  /\ pc # "returned"
  /\ hpc' = "locking"
  /\ UNCHANGED <<h, Started, run, pc, proc, mutex, files, temps, ivs, k, locals,
                 err, plan, pre, finFailed, rmFailed, nreq, lastReq, hollow, prev, seen>>

\* line 160: h.Lock()
HandlerLock ==
  /\ proc = "alive" /\ hpc = "locking"
  /\ mutex = "free"
  /\ mutex' = "handler"
  /\ hpc' = "sweep"
  /\ UNCHANGED <<h, Started, run, pc, proc, files, temps, ivs, k, locals, err,
                 plan, pre, finFailed, rmFailed, nreq, lastReq, hollow, prev, seen>>

\* lines 165-167: the sweep; log.Fatal ends the process when a removal fails
HandlerSweep(failAt) ==
  /\ proc = "alive" /\ hpc = "sweep"
  /\ failAt \in 0..Cardinality(temps)
  /\ temps' = cleanupTemporaryFiles(temps, failAt)
  /\ rmFailed' = (rmFailed \/ failAt # 0)
  /\ IF failAt = 0
       THEN hpc' = "exit" /\ UNCHANGED proc
       ELSE hpc' = "fatal" /\ proc' = "exit1"
  /\ UNCHANGED <<h, Started, run, pc, mutex, files, ivs, k, locals, err, plan,
                 pre, finFailed, nreq, lastReq, hollow, prev, seen>>

\* line 168: os.Exit(0)
HandlerExit ==
  /\ proc = "alive" /\ hpc = "exit"
  /\ proc' = "exit0"
  /\ UNCHANGED <<h, Started, run, pc, hpc, mutex, files, temps, ivs, k, locals,
                 err, plan, pre, finFailed, rmFailed, nreq, lastReq, hollow, prev, seen>>

(***************************************************************************)
(* Specification.                                                          *)
(***************************************************************************)
Next ==
  \/ Run
  \/ Plan
  \/ BeginInterval
  \/ LimitReached
  \/ \E resp \in Responses, wok \in BOOLEAN : Page(resp, wok)
  \/ FinalizeLock
  \/ \E res \in MoveResults, rmFail \in SUBSET Range(renamed) : Promote(res, rmFail)
  \/ FinalizeDone
  \/ \E failAt \in 0..MaxReq : Cleanup(failAt)
  \/ Signal
  \/ HandlerLock
  \/ \E failAt \in 0..MaxReq : HandlerSweep(failAt)
  \/ HandlerExit

Spec == Init /\ [][Next]_vars

\* Consecutive runs on one cache directory, for harvests whose request limit
\* is at most RerunMaxReq and whose default start lies before the day of the
\* first Run
InitRerun ==
  /\ Init
  /\ h.MaxRequests <= RerunMaxReq
  /\ \A d \in RunDays : DefaultStart[1] < d

NextRerun == Next \/ Rerun

SpecRerun == InitRerun /\ [][NextRerun]_vars

\* What the scheduler and the file system guarantee: the handler goroutine
\* runs on once the signal is delivered (Lock returns when the mutex is free
\* for good, the sweep and os.Exit end), and the promotion loop of finalize,
\* which holds the mutex, ends.  Nothing is assumed of the server: a request
\* may stay unanswered for ever.
Fairness ==
  /\ WF_vars(HandlerLock)
  /\ WF_vars(\E failAt \in 0..MaxReq : HandlerSweep(failAt))
  /\ WF_vars(HandlerExit)
  /\ WF_vars(\E res \in MoveResults, rmFail \in SUBSET Range(renamed) : Promote(res, rmFail))
  /\ WF_vars(FinalizeDone)

\* The harvests whose interruption is followed to the end of the process:
\* those planned from the earliest datestamp, with IgnoreHTTPErrors and a
\* positive MaxEmptyResponses.  The handler reads none of these switches.
InitFair ==
  /\ Init
  /\ h.From = <<>>
  /\ h.IgnoreHTTPErrors
  /\ h.MaxEmptyResponses > 0

SpecFair == InitFair /\ [][Next]_vars /\ Fairness

(***************************************************************************)
(* Properties.                                                             *)
(***************************************************************************)
\* the main goroutine returned from run
Returned == pc = "returned"
\* the process ended with os.Exit(0) of the interrupt handler
ExitedOnSignal == proc = "exit0"
\* no SIGINT was delivered to the current process
NoSignal == hpc = "waiting"
\* selective harvesting
Selective == ~h.DisableSelectiveHarvesting
\* the end of the window of the current run: the end of the day before Started
WindowEnd == EndOfDay(AddDate(Started, -1))
\* a promoted file of set S carries date d
HasDate(S, d) == \E f \in S : f.date = d
\* the date sub-interval n of the current schedule stamps on its files
DateOf(n) == Format(ivs[n].End, DayLayout)

\* C1: when finalize fails to promote a temp file of a batch and no
\* os.Remove fails, the promoted files are again those the cache held before
\* the batch started.
BatchPromotionAllOrNothing ==
  (finFailed /\ ~rmFailed) => files = pre

\* C2: after any run (returned or ended by the interrupt handler) the page
\* indices of the promoted files of every date are 0..k without a gap.
PageIndicesGapFree ==
  (Returned \/ proc \in {"exit0", "exit1"}) =>
    \A f \in files : \A n \in 0..f.idx : [date |-> f.date, idx |-> n] \in files

\* C3: after the interrupt handler ended the process with os.Exit(0) no
\* temporary file is left.
NoTempsAfterSignalExit ==
  ExitedOnSignal => temps = {}

\* C4: when run returns, no signal was delivered and no os.Remove failed, no
\* temporary file is left.
NoTempsAfterReturn ==
  (Returned /\ NoSignal /\ ~rmFailed) => temps = {}

\* C4 witness: run returned the error of a failed promotion, whose temporary
\* files the deferred cleanup swept.
ReturnedAfterFailedPromotion ==
  Returned /\ NoSignal /\ ~rmFailed /\ finFailed /\ err # NoErr /\ temps = {}

\* C5: the sweep of the interrupt handler and the exit of the process never
\* happen while finalize holds the mutex in its promotion loop.
SweepNeverDuringPromotion ==
  (hpc \in {"sweep", "exit", "fatal"} \/ proc \in {"exit0", "exit1"}) =>
    (pc # "promote" /\ mutex # "main")

\* C5 witness: the signal arrived while finalize had promoted a part of the
\* batch; the handler waits for the mutex.
SignalDuringPromotion ==
  /\ hpc = "locking" /\ pc = "promote" /\ mutex = "main"
  /\ renamed # <<>> /\ todo # <<>>

\* C6 as stated: in selective mode the dates of the promoted files are a
\* prefix of the schedule, whatever the switches and the responses.
PromotedDatesPrefixOfSchedule ==
  Selective =>
    \A n \in 1..Len(ivs) :
      HasDate(files, DateOf(n)) => \A m \in 1..(n - 1) : HasDate(files, DateOf(m))

\* C6 amended: in selective mode the dates of the promoted files are a prefix
\* of the schedule as long as no sub-interval of the run ended with no page
\* written.
PromotedDatesPrefixUnlessHollow ==
  (Selective /\ ~hollow) =>
    \A n \in 1..Len(ivs) :
      HasDate(files, DateOf(n)) => \A m \in 1..(n - 1) : HasDate(files, DateOf(m))

\* C6 witness: the second sub-interval of a schedule has a promoted file, and
\* so has the first.
SecondSubIntervalPromoted ==
  /\ Selective /\ ~hollow /\ Len(ivs) >= 2
  /\ HasDate(files, DateOf(2)) /\ HasDate(files, DateOf(1))

\* the planner of the current run has answered
Planned == plan # NoPlan
\* the current run is the second of two with the same Started, the first of
\* which returned nil
SecondRunAfterSuccess ==
  run >= 2 /\ prev.ok /\ prev.started = Started /\ Selective /\ Planned

\* C7 as stated: a second run with the same Started after a run that returned
\* nil is answered ErrAlreadySynced and issues no ListRecords request.
SecondRunAlreadySynced ==
  SecondRunAfterSuccess => (plan.err = <<"ErrAlreadySynced">> /\ nreq = 0)

\* C7 amended: the same, provided the first run left a promoted file
\* stamped with the last day of the window.
SecondRunAlreadySyncedIfWindowEndPromoted ==
  (SecondRunAfterSuccess /\ HasDate(prev.files, Format(WindowEnd, DayLayout))) =>
    (plan.err = <<"ErrAlreadySynced">> /\ nreq = 0)

\* C7 witness: the second run returned ErrAlreadySynced.
SecondRunReturnedSynced ==
  /\ SecondRunAfterSuccess /\ HasDate(prev.files, Format(WindowEnd, DayLayout))
  /\ Returned /\ err = <<"ErrAlreadySynced">>

\* C8: when the cache holds a promoted file and the planner returns an
\* interval, the interval begins the day after the latest cached date.
BeginAfterLatestCachedDate ==
  (Planned /\ plan.err = NoErr /\ prev.files # {}) =>
    plan.iv.Begin = AddDate(Parse(DayLayout, Last(prev.files, <<>>)), 1)

\* C9: on a fresh cache, for a default start not later than the day before
\* Started, the planner returns an interval that begins on the default start.
FreshCachePlansFromDefaultStart ==
  (run = 1 /\ Selective /\ Planned /\ plan.err # <<"ErrInvalidEarliestDate">>
     /\ plan.err # <<"ParseError">> /\ DefaultStart[1] <= Started.day - 1) =>
    (plan.err = NoErr /\ plan.iv.Begin.day = DefaultStart[1])

\* C10: in selective mode no request carries an until later than the end of
\* the day before Started, and no temporary or promoted file is stamped with
\* the day Run started or a later one.
NothingPlannedPastYesterday ==
  Selective =>
    /\ lastReq.Until # <<>> =>
         \/ lastReq.Until[1] < WindowEnd.day
         \/ /\ lastReq.Until[1] = WindowEnd.day
            /\ Len(lastReq.Until) = 2 => lastReq.Until[2] <= WindowEnd.sec
    /\ \A f \in files \cup {Dst(t) : t \in temps} : f.date[1] < Started.day

\* C10 witness: a request of second granularity ran up to the last second of
\* the day before Started and its page was promoted under that day.
HarvestedUpToYesterday ==
  /\ Selective /\ run = 1
  /\ lastReq.Until = <<Started.day - 1, LastSecond>>
  /\ HasDate(files, <<Started.day - 1>>)

\* C11: whenever the planner returns an interval, its begin is not after its
\* end.
PlannedIntervalOrdered ==
  (Planned /\ plan.err = NoErr) => ~After(plan.iv.Begin, plan.iv.End)

\* C12: the request limit ends the loop of runInterval only when MaxRequests
\* is positive.
RequestLimitOnlyWhenPositive ==
  seen.stop = "limit" => h.MaxRequests > 0

\* C13: the response noRecordsMatch without a resumption token ends the
\* sub-interval without a temporary file written for it; when it is the first
\* response, the batch has no temporary file and promotes nothing.
NoRecordsMatchWritesNothing ==
  seen.stop = "noRecordsMatch" =>
    /\ \A f \in seen.written : f.idx # i
    /\ seen.nreq = 1 => (seen.written = {} /\ files = pre)

\* this step issues a request of the current runInterval call
Requested == seen'.nreq = seen.nreq + 1

\* C14: every request carries the token of the response written last in its
\* sub-interval (none before the first one), and a request answered by
\* InternalException writes no file, adds one to the page index, leaves the
\* count of empty responses and the token as they are and stays in the loop.
RetrySameToken ==
  [][/\ Requested => lastReq'.ResumptionToken = seen.wtoken
     /\ (Requested /\ seen'.retry) =>
          /\ temps' = temps /\ files' = files
          /\ i' = i + 1 /\ empty' = empty /\ token' = token
          /\ pc' = "loop"]_vars

\* C14 witness: page 0 was written with a token, the second request was
\* answered by InternalException, and the third request carried the token
\* again under page index 2.
RetriedWithSameToken ==
  /\ seen.nreq = 3 /\ lastReq.n = 2 /\ lastReq.ResumptionToken # NoToken
  /\ \E f \in seen.written : f.idx = 0
  /\ \A f \in seen.written : f.idx # 1

\* C15: with a positive MaxRequests a sub-interval issues at most MaxRequests
\* requests, and at the head of the loop every request issued so far has been
\* counted by the page index, so the loop ends.
RequestsBoundedByLimit ==
  h.MaxRequests > 0 =>
    /\ seen.nreq <= h.MaxRequests
    /\ pc = "loop" => seen.nreq = i

\* C15 witness: every one of MaxReq requests was answered by
\* InternalException and the limit ended the loop with nothing written.
LimitEndedRetries ==
  /\ h.MaxRequests = MaxReq /\ seen.nreq = MaxReq
  /\ seen.stop = "limit" /\ seen.retry /\ seen.written = {}

\* the pages the current runInterval call wrote, under their promoted names
WrittenPages == {Dst(f) : f \in seen.written}
\* finalize of the current runInterval call returned nil
Finalized == pc \notin {"loop", "finalize", "promote"} /\ ~finFailed

\* C16: the rule of empty responses ends a sub-interval only after a page
\* without records that is the MaxEmptyResponses-th in a row, never after a
\* page with records; the pages written are then promoted.
EmptyRuleStopsAfterEmptyStreak ==
  seen.stop = "empty" =>
    /\ empty > 0 /\ empty = h.MaxEmptyResponses
    /\ Finalized => WrittenPages \subseteq files

\* the errors that end runInterval before finalize
FatalErrors == {<<"transport">>, <<"badArgument">>, <<"write">>}

IgnoredTransportFailureGoesOn ==
  (seen.stop = "transport" /\ Finalized) =>
    /\ h.IgnoreHTTPErrors
    /\ WrittenPages \subseteq files
    /\ pc \in {"interval", "cleanup", "returned"}
    /\ pc \in {"cleanup", "returned"} => k = Len(ivs)
    /\ (pc # "returned" \/ ~rmFailed) => err = NoErr

\* C18 witness: the first of two sub-intervals wrote a page, its next request
\* failed, the page was promoted and run is about to start the second one.
TransportFailureSkipped ==
  /\ seen.stop = "transport" /\ seen.written # {} /\ WrittenPages \subseteq files
  /\ pc = "interval" /\ k = 2 /\ err = NoErr

\* C19: when run ends with an error and the deferred cleanup fails too, the
\* error run returns holds the primary error.
PrimaryErrorKept ==
  [][(pc = "cleanup" /\ pc' = "returned" /\ err # NoErr /\ temps' # {}) =>
       \A n \in 1..Len(err) : \E m \in 1..Len(err') : err'[m] = err[n]]_vars

\* SIGINT was delivered and the handler has not taken the mutex yet
Signalled == hpc = "locking"

\* C20 as stated: after SIGINT the handler ends the process with status 0.
SignalLeadsToExitZero ==
  Signalled ~> (proc = "exit0")

\* C20 amended: after SIGINT the process ends: the handler takes the mutex,
\* sweeps and ends the process with status 0, or with log.Fatal when an
\* os.Remove of its sweep failed.
SignalLeadsToExit ==
  Signalled ~> (proc = "exit0" \/ (proc = "exit1" /\ rmFailed))

\* C20 witness: the handler ended the process with status 0 while the loop of
\* the second sub-interval was waiting on a request, after the batch of the
\* first one had been promoted.
ExitedBeforeLoopFinished ==
  /\ proc = "exit0" /\ pc = "loop" /\ k = 2 /\ files # {}

====
